---- MODULE Spec2Model ----
(***************************************************************************)
(* The dual-representation graph engine of context-studio's local server:  *)
(* the relational store (layers, domains, terms, term relationships), the  *)
(* triple graph built by SPARQLService, the property graph built by        *)
(* NetworkService, and GraphService.refresh, which rebuilds both.          *)
(*                                                                         *)
(* Abstractions.  Entity ids are uuid4 strings in the program; here they   *)
(* are the positive integers, allocated in order and never reused, and 0   *)
(* stands for None.  Titles and definitions are fixed per entity and the   *)
(* version is 1 (no modelled endpoint changes them); the timestamp columns *)
(* of the entities, which are only copied into the graphs, are left out.   *)
(* A node key f"{type}:{id}" is the pair <<type, id>>; an RDF   *)
(* term is a triple <<namespace, local name, id>>.                         *)
(***************************************************************************)
EXTENDS Integers, Sequences, FiniteSets, TLC

VARIABLES
    layers,      \* rows of table layers
    domains,     \* rows of table domains
    terms,       \* rows of table terms
    rels,        \* rows of table term_relationships, in rowid order
    nextTermId,  \* the id the next created term receives
    writes,      \* number of store writes so far (bounded by MaxWrites)
    rdfGraph,    \* SPARQLService.graph: a set of triples
    netGraph,    \* NetworkService.graph: [nodes, edges] with attribute dicts
    pc,          \* position of the thread running GraphService.refresh
    old,         \* history: both graphs as they were when the refresh began
    hist,        \* history: the store at the refresh's start and after every
                 \* write made while the refresh was running
    obs,         \* what a reader saw of the graphs as the refresh has left them
    rerun,       \* history: the refresh began on the very store that the graphs
                 \* it replaces had been built from, without interruption
    graph_events,    \* rows of table graph_events
    now,             \* the clock, in units of twelve hours
    stop_event,      \* EventProcessor._stop_event is set
    thread,          \* EventProcessor._thread: a thread id, or None
    cleanup_thread,  \* EventProcessor._cleanup_thread: a thread id, or None
    threads,         \* the threads the processor has started: id -> [target, at, until]
    log,             \* what the processor's logger has received
    id_map           \* FaissIndexer.id_map of every index: <<entity_type, entity id>>

store_vars == <<layers, domains, terms, rels, nextTermId, writes>>
graph_vars == <<rdfGraph, netGraph, pc>>
ghost_vars == <<old, hist, obs, rerun>>
event_vars == <<graph_events, now, stop_event, thread, cleanup_thread, threads, log, id_map>>
vars == <<layers, domains, terms, rels, nextTermId, writes,
          rdfGraph, netGraph, pc, old, hist, obs, rerun,
          graph_events, now, stop_event, thread, cleanup_thread, threads, log, id_map>>

-----------------------------------------------------------------------------
(* Bounds of the model *)

MaxTerms == 2        \* terms ever created
MaxRels == 2         \* term relationships in the store
MaxWrites == 1       \* store writes in one behaviour

(* None in an id column, and an unset (None or empty) primary_predicate *)
NoId == 0
Unset == ""

LayerIds == {1, 2}
DomainIds == {1, 2}
TermIds == 1..MaxTerms
LayerPredicates == {Unset, "part_of"}
RelPredicates == {"is_a", "part_of"}

LayerTitle(id) == IF id = 1 THEN "Layer1" ELSE "Layer2"
DomainTitle(id) == IF id = 1 THEN "Domain1" ELSE "Domain2"
TermTitle(id) == IF id = 1 THEN "Alpha" ELSE IF id = 2 THEN "Beta" ELSE "Gamma"

-----------------------------------------------------------------------------
(* The relational store *)

Layer(id, pp) ==
    [id |-> id, title |-> LayerTitle(id), definition |-> "layer definition",
     primary_predicate |-> pp, version |-> 1]
Domain(id, layer_id) ==
    [id |-> id, layer_id |-> layer_id, title |-> DomainTitle(id),
     definition |-> "domain definition", version |-> 1]
Term(id, domain_id, layer_id, parent_term_id) ==
    [id |-> id, domain_id |-> domain_id, layer_id |-> layer_id,
     title |-> TermTitle(id), definition |-> "term definition",
     version |-> 1, parent_term_id |-> parent_term_id]
TermRelationship(s, t, p) ==
    [source_term_id |-> s, target_term_id |-> t, predicate |-> p]

Store == [layers |-> layers, domains |-> domains, terms |-> terms, rels |-> rels]

Range(seq) == {seq[i] : i \in 1..Len(seq)}

(* The sequences without repetition of at most n of the rows *)
RowSeqs(rows, n) ==
    UNION {{q \in [1..k -> rows] : Cardinality(Range(q)) = k} : k \in 0..n}

(* Query(Layer).filter(Layer.id == id).first(): the row, or None (here the
   empty set) *)
first_layer(ls, id) == {l \in ls : l.id = id}

-----------------------------------------------------------------------------
(* NetworkService: the property graph (networkx.DiGraph) *)

NoAttrs == [a \in {} |-> ""]
EmptyDiGraph == [nodes |-> [n \in {} |-> NoAttrs], edges |-> [e \in {} |-> NoAttrs]]

(* A variant of NodeKey that leaves the entity type out of the key *)
NodeKeyWithoutType(type, id) == <<"node", id>>

NodeKey(type, id) == <<type, id>>

GetAttrs(f, k) == IF k \in DOMAIN f THEN f[k] ELSE NoAttrs
Put(f, k, v) == [y \in DOMAIN f \cup {k} |-> IF y = k THEN v ELSE f[y]]

(* dict.get(k, default) on an attribute dict *)
GetField(attrs, k, default) == IF k \in DOMAIN attrs THEN attrs[k] ELSE default

(* DiGraph.add_node: creates the node or updates its attribute dict *)
add_node(g, n, attrs) ==
    [nodes |-> Put(g.nodes, n, attrs @@ GetAttrs(g.nodes, n)), edges |-> g.edges]

(* A variant of add_edge that takes its endpoints in the other order *)
add_edge_reversed(g, u, v, attrs) ==
    LET n1 == Put(g.nodes, u, GetAttrs(g.nodes, u))
        n2 == Put(n1, v, GetAttrs(n1, v))
    IN  [nodes |-> n2, edges |-> Put(g.edges, <<v, u>>, attrs @@ GetAttrs(g.edges, <<v, u>>))]

(* DiGraph.add_edge: creates missing endpoints without attributes; one edge
   per ordered pair, whose attribute dict is updated when it exists *)
add_edge(g, u, v, attrs) ==
    LET n1 == Put(g.nodes, u, GetAttrs(g.nodes, u))
        n2 == Put(n1, v, GetAttrs(n1, v))
    IN  [nodes |-> n2, edges |-> Put(g.edges, <<u, v>>, attrs @@ GetAttrs(g.edges, <<u, v>>))]

(* A variant of clear that removes every edge and only the nodes that had
   none *)
clear_edges_and_isolated_nodes(g) ==
    [nodes |-> [n \in {m \in DOMAIN g.nodes :
                          \E e \in DOMAIN g.edges : e[1] = m \/ e[2] = m} |-> g.nodes[n]],
     edges |-> EmptyDiGraph.edges]

(* DiGraph.clear *)
clear(g) == EmptyDiGraph

RECURSIVE add_layer_nodes(_, _)
add_layer_nodes(g, ls) ==
    IF ls = {} THEN g
    ELSE LET layer == CHOOSE l \in ls : TRUE
         IN  add_layer_nodes(
                 add_node(g, NodeKey("layer", layer.id),
                          [type |-> "layer", title |-> layer.title,
                           definition |-> layer.definition,
                           primary_predicate |-> layer.primary_predicate,
                           version |-> layer.version, entity_id |-> layer.id]),
                 ls \ {layer})

RECURSIVE add_domain_nodes(_, _)
add_domain_nodes(g, ds) ==
    IF ds = {} THEN g
    ELSE LET domain == CHOOSE d \in ds : TRUE
         IN  add_domain_nodes(
                 add_node(g, NodeKey("domain", domain.id),
                          [type |-> "domain", title |-> domain.title,
                           definition |-> domain.definition,
                           layer_id |-> domain.layer_id,
                           version |-> domain.version, entity_id |-> domain.id]),
                 ds \ {domain})

RECURSIVE add_term_nodes(_, _)
add_term_nodes(g, ts) ==
    IF ts = {} THEN g
    ELSE LET term == CHOOSE t \in ts : TRUE
         IN  add_term_nodes(
                 add_node(g, NodeKey("term", term.id),
                          [type |-> "term", title |-> term.title,
                           definition |-> term.definition,
                           domain_id |-> term.domain_id, layer_id |-> term.layer_id,
                           parent_term_id |-> term.parent_term_id,
                           version |-> term.version, entity_id |-> term.id]),
                 ts \ {term})

(* predicate = layer.primary_predicate if layer and layer.primary_predicate
   else "is_a" *)
edge_predicate(ls, layer_id) ==
    LET layer == first_layer(ls, layer_id)
    IN  IF layer # {} /\ (CHOOSE l \in layer : TRUE).primary_predicate # Unset
        THEN (CHOOSE l \in layer : TRUE).primary_predicate
        ELSE "is_a"

HierarchicalAttrs(predicate, relationship) ==
    [type |-> "hierarchical", predicate |-> predicate, relationship |-> relationship]

(* _add_hierarchical_edges, first loop: Domain -> Layer *)
RECURSIVE add_domain_layer_edges(_, _, _)
add_domain_layer_edges(g, ds, ls) ==
    IF ds = {} THEN g
    ELSE LET domain == CHOOSE d \in ds : TRUE
         IN  add_domain_layer_edges(
                 add_edge(g, NodeKey("domain", domain.id), NodeKey("layer", domain.layer_id),
                          HierarchicalAttrs(edge_predicate(ls, domain.layer_id), "belongs_to")),
                 ds \ {domain}, ls)

(* _add_hierarchical_edges, second loop, one term: Term -> Domain and, with a
   parent_term_id, Term -> parent Term *)
add_term_edges(g, term, ls) ==
    LET predicate == edge_predicate(ls, term.layer_id)
        g1 == add_edge(g, NodeKey("term", term.id), NodeKey("domain", term.domain_id),
                       HierarchicalAttrs(predicate, "belongs_to"))
    IN  IF term.parent_term_id # NoId
        THEN add_edge(g1, NodeKey("term", term.id), NodeKey("term", term.parent_term_id),
                      HierarchicalAttrs(predicate, "child_of"))
        ELSE g1

RECURSIVE add_term_hierarchy_edges(_, _, _)
add_term_hierarchy_edges(g, ts, ls) ==
    IF ts = {} THEN g
    ELSE LET term == CHOOSE t \in ts : TRUE
         IN  add_term_hierarchy_edges(add_term_edges(g, term, ls), ts \ {term}, ls)

add_hierarchical_edges(g, s) ==
    add_term_hierarchy_edges(add_domain_layer_edges(g, s.domains, s.layers),
                             s.terms, s.layers)

RelationshipAttrs(rel) ==
    [type |-> "relationship", predicate |-> rel.predicate,
     relationship |-> "related_to", created_at |-> "created_at"]

(* _add_relationship_edges over the rows rs in the order the query returns
   them: it has no ORDER BY, SQLite scans the table by rowid *)
RECURSIVE add_relationship_edges(_, _)
add_relationship_edges(g, rs) ==
    IF rs = << >> THEN g
    ELSE add_relationship_edges(
             add_edge(g, NodeKey("term", Head(rs).source_term_id),
                      NodeKey("term", Head(rs).target_term_id),
                      RelationshipAttrs(Head(rs))),
             Tail(rs))

(* NetworkService._build_graph run without interruption on one store s *)
Network_build_graph(g, s) ==
    add_relationship_edges(
        add_hierarchical_edges(
            add_term_nodes(
                add_domain_nodes(
                    add_layer_nodes(clear(g), s.layers),
                    s.domains),
                s.terms),
            s),
        s.rels)

-----------------------------------------------------------------------------
(* SPARQLService: the triple graph (rdflib.Graph, a set of triples) *)

(* self.ENTITY[f"{type}/{id}"] and self.CS[name] *)
ENTITY(type, id) == <<"entity", type, id>>
CS(name) == <<"cs", name, 0>>
RDF_type == <<"rdf", "type", 0>>
RDFS_label == <<"rdfs", "label", 0>>
RDFS_comment == <<"rdfs", "comment", 0>>
SKOS_broader == <<"skos", "broader", 0>>
SKOS_narrower == <<"skos", "narrower", 0>>
Literal(value) == <<"literal", value, 0>>
IntLiteral(value) == <<"literal", "", value>>

EmptyGraph == {}

(* Graph.add: a triple already present is not added again *)
add(g, triple) == g \cup {triple}

(* A variant of _get_hierarchy_predicate that ignores primary_predicate *)
default_hierarchy_predicate(layer) == CS("is_a")

get_hierarchy_predicate(layer) ==
    IF layer # {} /\ (CHOOSE l \in layer : TRUE).primary_predicate # Unset
    THEN CS((CHOOSE l \in layer : TRUE).primary_predicate)
    ELSE CS("is_a")

add_layer(g, layer) ==
    LET layer_uri == ENTITY("layer", layer.id)
        g1 == add(g, <<layer_uri, RDF_type, CS("Layer")>>)
        g2 == add(g1, <<layer_uri, RDFS_label, Literal(layer.title)>>)
        g3 == IF layer.definition # Unset
              THEN add(g2, <<layer_uri, RDFS_comment, Literal(layer.definition)>>)
              ELSE g2
        g4 == IF layer.primary_predicate # Unset
              THEN add(g3, <<layer_uri, CS("primaryPredicate"),
                             Literal(layer.primary_predicate)>>)
              ELSE g3
    IN  add(g4, <<layer_uri, CS("version"), IntLiteral(layer.version)>>)

RECURSIVE add_layers(_, _)
add_layers(g, ls) ==
    IF ls = {} THEN g
    ELSE LET layer == CHOOSE l \in ls : TRUE
         IN  add_layers(add_layer(g, layer), ls \ {layer})

add_domain(g, domain, ls) ==
    LET domain_uri == ENTITY("domain", domain.id)
        layer_uri == ENTITY("layer", domain.layer_id)
        g1 == add(g, <<domain_uri, RDF_type, CS("Domain")>>)
        g2 == add(g1, <<domain_uri, RDFS_label, Literal(domain.title)>>)
        g3 == add(g2, <<domain_uri, RDFS_comment, Literal(domain.definition)>>)
        predicate == get_hierarchy_predicate(first_layer(ls, domain.layer_id))
        g4 == add(g3, <<domain_uri, predicate, layer_uri>>)
    IN  add(g4, <<domain_uri, CS("version"), IntLiteral(domain.version)>>)

RECURSIVE add_domains(_, _, _)
add_domains(g, ds, ls) ==
    IF ds = {} THEN g
    ELSE LET domain == CHOOSE d \in ds : TRUE
         IN  add_domains(add_domain(g, domain, ls), ds \ {domain}, ls)

add_term(g, term, ls) ==
    LET term_uri == ENTITY("term", term.id)
        domain_uri == ENTITY("domain", term.domain_id)
        layer_uri == ENTITY("layer", term.layer_id)
        g1 == add(g, <<term_uri, RDF_type, CS("Term")>>)
        g2 == add(add(g1, <<term_uri, RDFS_label, Literal(term.title)>>),
                  <<term_uri, RDFS_comment, Literal(term.definition)>>)
        predicate == get_hierarchy_predicate(first_layer(ls, term.layer_id))
        g3 == add(g2, <<term_uri, predicate, domain_uri>>)
        g4 == add(g3, <<term_uri, CS("belongsToLayer"), layer_uri>>)
        parent_uri == ENTITY("term", term.parent_term_id)
        g5 == IF term.parent_term_id # NoId
              THEN add(add(add(g4, <<term_uri, predicate, parent_uri>>),
                           <<term_uri, SKOS_broader, parent_uri>>),
                       <<parent_uri, SKOS_narrower, term_uri>>)
              ELSE g4
    IN  add(g5, <<term_uri, CS("version"), IntLiteral(term.version)>>)

RECURSIVE add_terms(_, _, _)
add_terms(g, ts, ls) ==
    IF ts = {} THEN g
    ELSE LET term == CHOOSE t \in ts : TRUE
         IN  add_terms(add_term(g, term, ls), ts \ {term}, ls)

(* A variant of _add_term_relationships that states each relationship from
   its target to its source *)
RECURSIVE add_term_relationships_reversed(_, _)
add_term_relationships_reversed(g, rs) ==
    IF rs = << >> THEN g
    ELSE add_term_relationships_reversed(
             add(g, <<ENTITY("term", Head(rs).target_term_id),
                      CS(Head(rs).predicate),
                      ENTITY("term", Head(rs).source_term_id)>>),
             Tail(rs))

RECURSIVE add_term_relationships(_, _)
add_term_relationships(g, rs) ==
    IF rs = << >> THEN g
    ELSE add_term_relationships(
             add(g, <<ENTITY("term", Head(rs).source_term_id),
                      CS(Head(rs).predicate),
                      ENTITY("term", Head(rs).target_term_id)>>),
             Tail(rs))

(* SPARQLService._build_graph run without interruption on one store s *)
SPARQL_build_graph(s) ==
    add_term_relationships(
        add_terms(
            add_domains(
                add_layers(EmptyGraph, s.layers),
                s.domains, s.layers),
            s.terms, s.layers),
        s.rels)

-----------------------------------------------------------------------------
(* Writes to the relational store (the CRUD endpoints, each one committed
   transaction) *)

NoteWrite(s) ==
    /\ writes < MaxWrites
    /\ writes' = writes + 1
    /\ hist' = IF pc \in {"idle", "new"} THEN hist ELSE Append(hist, s)
    /\ UNCHANGED <<rdfGraph, netGraph, pc, old, obs, rerun, event_vars>>

(* A variant of check_circular_reference that looks at the new parent only *)
check_self_reference(ts, term_id, current, n) == current # NoId /\ current = term_id

(* api/terms.py check_circular_reference, walking the parent chain of
   parent_term_id; n bounds the walk of the model *)
RECURSIVE check_circular_reference(_, _, _, _)
check_circular_reference(ts, term_id, current, n) ==
    IF current = NoId \/ n = 0 THEN FALSE
    ELSE IF current = term_id THEN TRUE
    ELSE LET parent == {t \in ts : t.id = current}
         IN  IF parent = {} THEN FALSE
             ELSE check_circular_reference(ts, term_id,
                      (CHOOSE t \in parent : TRUE).parent_term_id, n - 1)

create_term(domain_id, layer_id, parent_term_id) ==
    /\ nextTermId <= MaxTerms
    /\ \E d \in domains : d.id = domain_id
    /\ \E l \in layers : l.id = layer_id
    /\ ~ \E t \in terms : t.domain_id = domain_id /\ t.title = TermTitle(nextTermId)
    /\ parent_term_id # NoId =>
          /\ \E t \in terms : t.id = parent_term_id /\ t.domain_id = domain_id
          /\ ~ check_circular_reference(terms, NoId, parent_term_id, Cardinality(terms) + 1)
    /\ terms' = terms \cup {Term(nextTermId, domain_id, layer_id, parent_term_id)}
    /\ nextTermId' = nextTermId + 1
    /\ UNCHANGED <<layers, domains, rels>>

delete_term(id) ==
    /\ \E t \in terms : t.id = id
    /\ terms' = {IF t.parent_term_id = id THEN [t EXCEPT !.parent_term_id = NoId] ELSE t :
                    t \in {u \in terms : u.id # id}}
    /\ rels' = SelectSeq(rels, LAMBDA r : r.source_term_id # id /\ r.target_term_id # id)
    /\ UNCHANGED <<layers, domains, nextTermId>>

create_relationship(source_term_id, target_term_id, predicate) ==
    /\ Len(rels) < MaxRels
    /\ \E t \in terms : t.id = source_term_id
    /\ \E t \in terms : t.id = target_term_id
    /\ TermRelationship(source_term_id, target_term_id, predicate) \notin Range(rels)
    /\ rels' = Append(rels, TermRelationship(source_term_id, target_term_id, predicate))
    /\ UNCHANGED <<layers, domains, terms, nextTermId>>
    /\ NoteWrite([Store EXCEPT !.rels = rels'])

CreateTerm ==
    /\ \E d \in DomainIds, l \in LayerIds, p \in {NoId} \cup TermIds : create_term(d, l, p)
    /\ NoteWrite([Store EXCEPT !.terms = terms'])
DeleteTerm ==
    /\ \E id \in TermIds : delete_term(id)
    /\ NoteWrite([Store EXCEPT !.terms = terms', !.rels = rels'])
CreateRelationship ==
    \E s \in TermIds, t \in TermIds, p \in RelPredicates : create_relationship(s, t, p)

-----------------------------------------------------------------------------
(* GraphService.refresh: sparql_service.refresh() then
   network_service.refresh(), one step per statement that reads the store or
   replaces a graph *)

Graphs == [rdf |-> rdfGraph, net |-> netGraph]

Step(from, to) ==
    /\ pc = from
    /\ pc' = to
    /\ obs' = "none"
    /\ UNCHANGED <<store_vars, old, hist, rerun, event_vars>>

RefreshBegin ==
    /\ pc = "idle"
    /\ pc' = "add_layers"
    /\ rdfGraph' = EmptyGraph
    /\ old' = Graphs
    /\ hist' = <<Store>>
    /\ obs' = "none"
    /\ rerun' = (Len(hist) = 1 /\ hist[1] = Store)
    /\ UNCHANGED <<store_vars, netGraph, event_vars>>

SparqlAddLayers ==
    /\ Step("add_layers", "add_domains")
    /\ rdfGraph' = add_layers(rdfGraph, layers)
    /\ UNCHANGED netGraph

SparqlAddDomains ==
    /\ Step("add_domains", "add_terms")
    /\ rdfGraph' = add_domains(rdfGraph, domains, layers)
    /\ UNCHANGED netGraph

SparqlAddTerms ==
    /\ Step("add_terms", "add_term_relationships")
    /\ rdfGraph' = add_terms(rdfGraph, terms, layers)
    /\ UNCHANGED netGraph

SparqlAddTermRelationships ==
    /\ Step("add_term_relationships", "clear")
    /\ rdfGraph' = add_term_relationships(rdfGraph, rels)
    /\ UNCHANGED netGraph

NetworkClear ==
    /\ Step("clear", "add_layer_nodes")
    /\ netGraph' = clear(netGraph)
    /\ UNCHANGED rdfGraph

NetworkAddLayerNodes ==
    /\ Step("add_layer_nodes", "add_domain_nodes")
    /\ netGraph' = add_layer_nodes(netGraph, layers)
    /\ UNCHANGED rdfGraph

NetworkAddDomainNodes ==
    /\ Step("add_domain_nodes", "add_term_nodes")
    /\ netGraph' = add_domain_nodes(netGraph, domains)
    /\ UNCHANGED rdfGraph

NetworkAddTermNodes ==
    /\ Step("add_term_nodes", "add_domain_layer_edges")
    /\ netGraph' = add_term_nodes(netGraph, terms)
    /\ UNCHANGED rdfGraph

NetworkAddDomainLayerEdges ==
    /\ Step("add_domain_layer_edges", "add_term_hierarchy_edges")
    /\ netGraph' = add_domain_layer_edges(netGraph, domains, layers)
    /\ UNCHANGED rdfGraph

NetworkAddTermHierarchyEdges ==
    /\ Step("add_term_hierarchy_edges", "add_relationship_edges")
    /\ netGraph' = add_term_hierarchy_edges(netGraph, terms, layers)
    /\ UNCHANGED rdfGraph

NetworkAddRelationshipEdges ==
    /\ Step("add_relationship_edges", "idle")
    /\ netGraph' = add_relationship_edges(netGraph, rels)
    /\ UNCHANGED rdfGraph

(* A reader on another thread, while the refresh is running: it sees a
   complete graph if what it reads is the graph as it was before the refresh
   or the graph of a store the refresh can have read *)
CompleteRdf(g) ==
    g = old.rdf \/ \E i \in 1..Len(hist) : g = SPARQL_build_graph(hist[i])
CompleteNet(g) ==
    g = old.net \/ \E i \in 1..Len(hist) : g = Network_build_graph(EmptyDiGraph, hist[i])

QueryDuringRefresh ==
    /\ pc \notin {"idle", "new"}
    /\ obs' = IF CompleteRdf(rdfGraph) /\ CompleteNet(netGraph) THEN "complete" ELSE "torn"
    /\ UNCHANGED <<store_vars, graph_vars, old, hist, rerun, event_vars>>

-----------------------------------------------------------------------------
(* Stores the endpoints can have produced *)

(* Terms 1..k as create_term can have stored them, created domain by domain:
   the parent is an earlier term of the same domain; layer_id is the domain's
   layer, or, when crossed, the other layer (the endpoint checks only that the
   layer exists) *)
TermLayer(d, crossed) == IF crossed THEN 3 - d ELSE d

RECURSIVE TermSets(_, _)
TermSets(k, crossed) ==
    IF k = 0 THEN {{}}
    ELSE UNION {UNION {{ts \cup {Term(k, d, TermLayer(d, crossed), p)} :
                           p \in {NoId} \cup {t.id : t \in {u \in ts : u.domain_id = d}}} :
                       d \in {e \in DomainIds : \A t \in ts : t.domain_id <= e}} :
                ts \in TermSets(k - 1, crossed)}

RelRows(ts) ==
    UNION {{TermRelationship(s.id, t.id, p) : t \in ts \ {s}, p \in RelPredicates}
               : s \in ts}

None == 0

(* EventProcessor.__init__ over an empty table graph_events, with a
   FaissManager whose indexes are empty *)
EventProcessor_init ==
    /\ graph_events = {}
    /\ now = 0
    /\ stop_event = FALSE
    /\ thread = None
    /\ cleanup_thread = None
    /\ threads = << >>
    /\ log = {}
    /\ id_map = {}

InitStore(termSets, maxRels) ==
    /\ EventProcessor_init
    /\ \E pp \in LayerPredicates : layers = {Layer(1, pp), Layer(2, Unset)}
    /\ domains = {Domain(1, 1), Domain(2, 2)}
    /\ terms \in termSets
    /\ rels \in RowSeqs(RelRows(terms), maxRels)
    /\ nextTermId = Cardinality(terms) + 1
    /\ writes = 0

(* The end-to-end scenario: T1 a root term of D1, T2 its child *)
ScenarioTerms == {Term(1, 1, 1, NoId), Term(2, 1, 1, 1)}

(* After GraphService.__init__ over a store nobody wrote meanwhile *)
Init ==
    /\ InitStore({{}, ScenarioTerms}, 0)
    /\ rdfGraph = SPARQL_build_graph(Store)
    /\ netGraph = Network_build_graph(EmptyDiGraph, Store)
    /\ pc = "idle"
    /\ old = [rdf |-> EmptyGraph, net |-> EmptyDiGraph]
    /\ hist = <<Store>>
    /\ obs = "none"
    /\ rerun = FALSE

Next ==
    \/ CreateTerm
    \/ DeleteTerm
    \/ CreateRelationship
    \/ RefreshBegin
    \/ SparqlAddLayers
    \/ SparqlAddDomains
    \/ SparqlAddTerms
    \/ SparqlAddTermRelationships
    \/ NetworkClear
    \/ NetworkAddLayerNodes
    \/ NetworkAddDomainNodes
    \/ NetworkAddTermNodes
    \/ NetworkAddDomainLayerEdges
    \/ NetworkAddTermHierarchyEdges
    \/ NetworkAddRelationshipEdges
    \/ QueryDuringRefresh

Spec == Init /\ [][Next]_vars

-----------------------------------------------------------------------------
(* The builders alone: the service is constructed over a store and refreshed,
   each run to completion with no write in between *)

InitBuild ==
    /\ InitStore(UNION {TermSets(k, c) : k \in 0..MaxTerms, c \in BOOLEAN}, MaxRels)
    /\ \A t \in terms : t.layer_id # t.domain_id => Layer(1, Unset) \notin layers
    /\ rdfGraph = EmptyGraph
    /\ netGraph = EmptyDiGraph
    /\ pc = "new"
    /\ old = [rdf |-> EmptyGraph, net |-> EmptyDiGraph]
    /\ hist = <<Store>>
    /\ obs = "none"
    /\ rerun = FALSE

Rebuild ==
    /\ rdfGraph' = SPARQL_build_graph(Store)
    /\ netGraph' = Network_build_graph(netGraph, Store)
    /\ pc' = "idle"
    /\ old' = Graphs
    /\ hist' = <<Store>>
    /\ rerun' = (pc = "idle")
    /\ UNCHANGED <<store_vars, obs, event_vars>>

(* GraphService.__init__ *)
Construct == pc = "new" /\ Rebuild

(* GraphService.refresh *)
Refresh == pc = "idle" /\ ~rerun /\ Rebuild

NextBuild == Construct \/ Refresh

SpecBuild == InitBuild /\ [][NextBuild]_vars

(* The last refresh (or the construction) is complete and no write fell
   within it; Snapshot is the store it read *)
Built == pc = "idle" /\ Len(hist) = 1
Snapshot == hist[1]

-----------------------------------------------------------------------------
(* What a snapshot s of the store prescribes for the graphs built from it *)

Entities(s) ==
    {<<"layer", l.id>> : l \in s.layers}
        \cup {<<"domain", d.id>> : d \in s.domains}
        \cup {<<"term", t.id>> : t \in s.terms}

(* The hierarchy predicate name of the layer with this id in s *)
LayerPredicate(s, layer_id) ==
    IF \E l \in s.layers : l.id = layer_id /\ l.primary_predicate # Unset
    THEN (CHOOSE l \in s.layers : l.id = layer_id).primary_predicate
    ELSE "is_a"

WithParent(s) == {t \in s.terms : t.parent_term_id # NoId}

(* The child -> parent pairs of s *)
HierarchyEdges(s) ==
    {<<NodeKey("domain", d.id), NodeKey("layer", d.layer_id)>> : d \in s.domains}
        \cup {<<NodeKey("term", t.id), NodeKey("domain", t.domain_id)>> : t \in s.terms}
        \cup {<<NodeKey("term", t.id), NodeKey("term", t.parent_term_id)>> : t \in WithParent(s)}

RelationshipEdge(rel) ==
    <<NodeKey("term", rel.source_term_id), NodeKey("term", rel.target_term_id)>>

RelationshipTriple(rel) ==
    <<ENTITY("term", rel.source_term_id), CS(rel.predicate), ENTITY("term", rel.target_term_id)>>

(* The term -> parent hierarchy statements of s *)
ParentTriples(s) ==
    {<<ENTITY("term", t.id), CS(LayerPredicate(s, t.layer_id)), ENTITY("term", t.parent_term_id)>> :
        t \in WithParent(s)}

(* The triples of g with subject sub and predicate pred *)
Statements(g, sub, pred) == {t \in g : t[1] = sub /\ t[2] = pred}

(* The triples of g that link sub to obj *)
Links(g, sub, obj) == {t \in g : t[1] = sub /\ t[3] = obj}

-----------------------------------------------------------------------------
(* C3: every entity of the snapshot is a node of the property graph under its
   key (type, id), exactly one node carries its type and id, and its URI is
   the subject of exactly one rdf:type triple; distinct entities have distinct
   node keys and distinct URIs. *)
IdentityUniqueness ==
    Built =>
        /\ \A e \in Entities(Snapshot) :
              /\ NodeKey(e[1], e[2]) \in DOMAIN netGraph.nodes
              /\ Cardinality({n \in DOMAIN netGraph.nodes :
                    /\ GetField(netGraph.nodes[n], "type", "None") = e[1]
                    /\ GetField(netGraph.nodes[n], "entity_id", NoId) = e[2]}) = 1
              /\ Cardinality(Statements(rdfGraph, ENTITY(e[1], e[2]), RDF_type)) = 1
        /\ \A e1 \in Entities(Snapshot), e2 \in Entities(Snapshot) :
              e1 # e2 => /\ NodeKey(e1[1], e1[2]) # NodeKey(e2[1], e2[2])
                         /\ ENTITY(e1[1], e1[2]) # ENTITY(e2[1], e2[2])

(* A built store in which a layer, a domain and a term share the id 1 *)
IdentityWitness ==
    /\ Built
    /\ {<<"layer", 1>>, <<"domain", 1>>, <<"term", 1>>} \subseteq Entities(Snapshot)
    /\ NodeKey("term", 1) \in DOMAIN netGraph.nodes
    /\ <<ENTITY("term", 1), RDF_type, CS("Term")>> \in rdfGraph

(* C4: after a build the property graph has the edge Domain -> Layer and not
   Layer -> Domain, the edge Term -> Domain, and Term -> parent for a term
   with a parent; every hierarchical edge is one of these child -> parent
   pairs. *)
HierarchyDirection ==
    Built =>
        /\ HierarchyEdges(Snapshot) \subseteq DOMAIN netGraph.edges
        /\ \A d \in Snapshot.domains :
              <<NodeKey("layer", d.layer_id), NodeKey("domain", d.id)>> \notin DOMAIN netGraph.edges
        /\ \A e \in DOMAIN netGraph.edges :
              netGraph.edges[e].type = "hierarchical" => e \in HierarchyEdges(Snapshot)

(* A built store with a child term, whose three kinds of hierarchy edge are
   in the graph *)
HierarchyWitness ==
    /\ Built
    /\ \E t \in WithParent(Snapshot) :
          /\ <<NodeKey("term", t.id), NodeKey("term", t.parent_term_id)>> \in DOMAIN netGraph.edges
          /\ <<NodeKey("term", t.id), NodeKey("domain", t.domain_id)>> \in DOMAIN netGraph.edges
    /\ \E d \in Snapshot.domains :
          <<NodeKey("domain", d.id), NodeKey("layer", d.layer_id)>> \in DOMAIN netGraph.edges

(* C5: for every TermRelationship of the snapshot the built property graph
   has the edge source -> target, labelled with that relationship's own
   predicate, also when several relationships, or a relationship and a
   Term -> parent edge, join the same ordered pair. *)
RelationshipEdgeLabels ==
    Built =>
        \A i \in 1..Len(Snapshot.rels) :
            /\ RelationshipEdge(Snapshot.rels[i]) \in DOMAIN netGraph.edges
            /\ netGraph.edges[RelationshipEdge(Snapshot.rels[i])].predicate
                   = Snapshot.rels[i].predicate

(* C6: in the built triple set every entity has exactly one type triple and
   exactly one label triple; every domain has exactly one triple to its layer
   and every term exactly one triple to its domain, whose predicate is the
   primary_predicate of the layer its layer_id names when set and is_a
   otherwise; a term with a parent has the broader triple and the inverse
   narrower triple. *)
TripleModel ==
    Built =>
        /\ \A e \in Entities(Snapshot) :
              /\ Cardinality(Statements(rdfGraph, ENTITY(e[1], e[2]), RDF_type)) = 1
              /\ Cardinality(Statements(rdfGraph, ENTITY(e[1], e[2]), RDFS_label)) = 1
        /\ \A d \in Snapshot.domains :
              Links(rdfGraph, ENTITY("domain", d.id), ENTITY("layer", d.layer_id))
                  = {<<ENTITY("domain", d.id), CS(LayerPredicate(Snapshot, d.layer_id)),
                       ENTITY("layer", d.layer_id)>>}
        /\ \A t \in Snapshot.terms :
              Links(rdfGraph, ENTITY("term", t.id), ENTITY("domain", t.domain_id))
                  = {<<ENTITY("term", t.id), CS(LayerPredicate(Snapshot, t.layer_id)),
                       ENTITY("domain", t.domain_id)>>}
        /\ \A t \in WithParent(Snapshot) :
              /\ <<ENTITY("term", t.id), SKOS_broader, ENTITY("term", t.parent_term_id)>>
                     \in rdfGraph
              /\ <<ENTITY("term", t.parent_term_id), SKOS_narrower, ENTITY("term", t.id)>>
                     \in rdfGraph

(* A built store whose layer 1 sets a primary_predicate, with a child term in
   its domain, stated with that predicate *)
TripleModelWitness ==
    /\ Built
    /\ \E t \in WithParent(Snapshot) :
          /\ LayerPredicate(Snapshot, t.layer_id) = "part_of"
          /\ <<ENTITY("term", t.id), CS("part_of"), ENTITY("domain", t.domain_id)>> \in rdfGraph
          /\ <<ENTITY("term", t.id), SKOS_broader, ENTITY("term", t.parent_term_id)>> \in rdfGraph

(* The triples built from the snapshot's entities alone, without its
   relationships *)
EntityTriples == SPARQL_build_graph([Snapshot EXCEPT !.rels = << >>])

(* C7, as stated: every TermRelationship of the snapshot adds exactly one
   statement (source, predicate, target): the triple is present and the triple
   count grows by one per relationship, whatever the predicate and the
   terms. *)
OneStatementPerRelationship ==
    Built =>
        /\ \A i \in 1..Len(Snapshot.rels) : RelationshipTriple(Snapshot.rels[i]) \in rdfGraph
        /\ Cardinality(rdfGraph) = Cardinality(EntityTriples) + Len(Snapshot.rels)

(* C7, amended: the triple of every TermRelationship is present, and the
   triple count grows by one per relationship except for a relationship whose
   triple is its source term's own Term -> parent hierarchy triple, which adds
   nothing. *)
OneStatementPerNewRelationship ==
    Built =>
        /\ \A i \in 1..Len(Snapshot.rels) : RelationshipTriple(Snapshot.rels[i]) \in rdfGraph
        /\ Cardinality(rdfGraph)
              = Cardinality(EntityTriples)
                  + Cardinality({i \in 1..Len(Snapshot.rels) :
                        RelationshipTriple(Snapshot.rels[i]) \notin ParentTriples(Snapshot)})

(* A built store with a relationship that repeats a Term -> parent triple and
   one that does not *)
RelationshipStatementWitness ==
    /\ Built
    /\ \E i \in 1..Len(Snapshot.rels) :
          RelationshipTriple(Snapshot.rels[i]) \in ParentTriples(Snapshot)
    /\ \E i \in 1..Len(Snapshot.rels) :
          /\ RelationshipTriple(Snapshot.rels[i]) \notin ParentTriples(Snapshot)
          /\ RelationshipTriple(Snapshot.rels[i]) \in rdfGraph

(* The orders in which the rows of a table can be taken *)
Orders(rows) == {q \in RowSeqs(Range(rows), Len(rows)) : Len(q) = Len(rows)}

BuildNodes(g, s) ==
    add_term_nodes(add_domain_nodes(add_layer_nodes(g, s.layers), s.domains), s.terms)

(* The graphs that the entities, hierarchy edges and relationship edges of s
   give when the three groups, and the relationship rows, are taken in other
   orders than _build_graph takes them *)
ConstructionOrders(s) ==
    UNION {{add_relationship_edges(add_hierarchical_edges(BuildNodes(EmptyDiGraph, s), s), rs),
            add_hierarchical_edges(add_relationship_edges(BuildNodes(EmptyDiGraph, s), rs), s),
            BuildNodes(add_relationship_edges(add_hierarchical_edges(EmptyDiGraph, s), rs), s)} :
           rs \in Orders(s.rels)}

(* C9: the property graph built from a snapshot does not depend on the order
   in which entities, hierarchy edges and relationship edges are added: every
   construction order gives the same nodes, edges and edge attributes. *)
OrderIndependent ==
    Built => \A g \in ConstructionOrders(Snapshot) : g = netGraph

-----------------------------------------------------------------------------
(* The refresh against concurrent readers and writers *)

(* C1: a query that reads a graph while its rebuild is in progress sees the
   complete graph of before the rebuild or a complete rebuilt graph, never an
   empty or partly filled one. *)
NoTornRead == obs # "torn"

(* C2: once refresh() has returned, the triple graph and the property graph
   are both built from one and the same snapshot of the store, whatever
   writes fell within the refresh. *)
OneSnapshot ==
    pc = "idle" =>
        \E i \in 1..Len(hist) :
            /\ rdfGraph = SPARQL_build_graph(hist[i])
            /\ netGraph = Network_build_graph(EmptyDiGraph, hist[i])

(* C8: the nodes of the built property graph are exactly the layers, domains
   and terms of the snapshot and every node carries its origin attributes; no
   node exists only as the endpoint of an edge, also when the store is
   written between the builder's reads. *)
NodesAreEntities ==
    pc = "idle" =>
        /\ \E i \in 1..Len(hist) :
              DOMAIN netGraph.nodes = {NodeKey(e[1], e[2]) : e \in Entities(hist[i])}
        /\ \A n \in DOMAIN netGraph.nodes :
              /\ GetField(netGraph.nodes[n], "type", "None") \in {"layer", "domain", "term"}
              /\ GetField(netGraph.nodes[n], "title", "None") # "None"
              /\ GetField(netGraph.nodes[n], "entity_id", NoId) # NoId

-----------------------------------------------------------------------------
(* The queries *)

number_of_nodes(g) == Cardinality(DOMAIN g.nodes)
number_of_edges(g) == Cardinality(DOMAIN g.edges)

(* A variant of successors that follows the edges in both directions *)
successors_and_predecessors(g, n) ==
    {e[2] : e \in {f \in DOMAIN g.edges : f[1] = n}}
        \cup {e[1] : e \in {f \in DOMAIN g.edges : f[2] = n}}

successors(g, n) == {e[2] : e \in {f \in DOMAIN g.edges : f[1] = n}}
predecessors(g, n) == {e[1] : e \in {f \in DOMAIN g.edges : f[2] = n}}

(* NetworkService.get_node_info; the two neighbour lists as sets *)
(* A variant of get_node_info that answers for a key that is not a node as
   for a node without attributes or edges *)
get_node_info_of_any_key(g, entity_id, entity_type) ==
    LET node_id == NodeKey(entity_type, entity_id)
    IN  [found |-> TRUE,
         node_data |-> GetAttrs(g.nodes, node_id),
         in_degree |-> Cardinality(predecessors(g, node_id)),
         out_degree |-> Cardinality(successors(g, node_id)),
         predecessors |-> predecessors(g, node_id),
         successors |-> successors(g, node_id)]

get_node_info(g, entity_id, entity_type) ==
    LET node_id == NodeKey(entity_type, entity_id)
    IN  IF node_id \notin DOMAIN g.nodes THEN [found |-> FALSE]
        ELSE [found |-> TRUE,
              node_data |-> g.nodes[node_id],
              in_degree |-> Cardinality(predecessors(g, node_id)),
              out_degree |-> Cardinality(successors(g, node_id)),
              predecessors |-> predecessors(g, node_id),
              successors |-> successors(g, node_id)]

(* One round of the loop of get_neighbors over current_level *)
(* A variant of next_level with the two directions exchanged *)
next_level_exchanged(g, current_level, direction) ==
    UNION {(IF direction \in {"in", "both"} THEN successors(g, n) ELSE {})
               \cup (IF direction \in {"out", "both"} THEN predecessors(g, n) ELSE {}) :
           n \in current_level}

(* One pass of the loop over current_level in get_neighbors *)
next_level(g, current_level, direction) ==
    UNION {(IF direction \in {"out", "both"} THEN successors(g, n) ELSE {})
               \cup (IF direction \in {"in", "both"} THEN predecessors(g, n) ELSE {}) :
           n \in current_level}

RECURSIVE neighbors_by_depth(_, _, _, _, _, _)
neighbors_by_depth(g, current_level, visited, d, depth, direction) ==
    IF d > depth THEN {}
    ELSE LET next == next_level(g, current_level, direction) \ visited
         IN  IF next = {} THEN {}
             ELSE {<<d, next>>}
                      \cup neighbors_by_depth(g, next, visited \cup next, d + 1, depth, direction)

(* A variant of get_neighbors that does not mark the start node as visited *)
get_neighbors_start_unvisited(g, entity_id, entity_type, depth, direction) ==
    LET node_id == NodeKey(entity_type, entity_id)
    IN  IF node_id \notin DOMAIN g.nodes THEN {}
        ELSE neighbors_by_depth(g, {node_id}, {}, 1, depth, direction)

(* NetworkService.get_neighbors: the pairs <<d, neighbours at depth d>> *)
get_neighbors(g, entity_id, entity_type, depth, direction) ==
    LET node_id == NodeKey(entity_type, entity_id)
    IN  IF node_id \notin DOMAIN g.nodes THEN {}
        ELSE neighbors_by_depth(g, {node_id}, {node_id}, 1, depth, direction)

(* Breadth-first search along the edges: the number of edges of a shortest
   path from the level reached after d steps to target, or -1 *)
RECURSIVE path_length(_, _, _, _, _)
path_length(g, level, visited, target, d) ==
    IF target \in level THEN d
    ELSE LET next == next_level(g, level, "out") \ visited
         IN  IF next = {} THEN 0 - 1
             ELSE path_length(g, next, visited \cup next, target, d + 1)

(* NetworkService.find_shortest_path, by the length of the path it returns:
   nx.shortest_path raises NodeNotFound for a node that is not in the graph,
   NetworkXNoPath is answered with None *)
find_shortest_path(g, source_id, target_id, source_type, target_type) ==
    LET source_node == NodeKey(source_type, source_id)
        target_node == NodeKey(target_type, target_id)
    IN  IF {source_node, target_node} \subseteq DOMAIN g.nodes
        THEN LET d == path_length(g, {source_node}, {source_node}, target_node, 0)
             IN  IF d < 0 THEN [result |-> "None"] ELSE [result |-> "path", edges |-> d]
        ELSE [result |-> "NodeNotFound"]

hierarchy_entry(g, node, distance) ==
    [id |-> node[2], type |-> GetField(g.nodes[node], "type", "None"),
     title |-> GetField(g.nodes[node], "title", "None"), distance |-> distance]

(* NetworkService.get_term_hierarchy; the two lists as sets *)
get_term_hierarchy(g, term_id) ==
    LET term_node == NodeKey("term", term_id)
    IN  IF term_node \notin DOMAIN g.nodes THEN [ancestors |-> {}, descendants |-> {}]
        ELSE [ancestors |->
                 {hierarchy_entry(g, n, path_length(g, {n}, {n}, term_node, 0)) :
                     n \in {m \in DOMAIN g.nodes : path_length(g, {m}, {m}, term_node, 0) > 0}},
              descendants |->
                 {hierarchy_entry(g, n, path_length(g, {term_node}, {term_node}, n, 0)) :
                     n \in {m \in DOMAIN g.nodes :
                               path_length(g, {term_node}, {term_node}, m, 0) > 0}}]

objects(g, sub, pred) == {t[3] : t \in Statements(g, sub, pred)}

(* The characters of the titles and of the texts searched for *)
Chars(str) ==
    CASE str = "Alpha" -> <<"A", "l", "p", "h", "a">>
      [] str = "Beta"  -> <<"B", "e", "t", "a">>
      [] str = "Gamma" -> <<"G", "a", "m", "m", "a">>
      [] str = "alpha" -> <<"a", "l", "p", "h", "a">>
      [] str = "LPH"   -> <<"L", "P", "H">>
      [] str = "a"     -> <<"a">>
      [] str = "Zeta"  -> <<"Z", "e", "t", "a">>

LowerCase(c) ==
    CASE c = "A" -> "a" [] c = "B" -> "b" [] c = "G" -> "g" [] c = "H" -> "h"
      [] c = "L" -> "l" [] c = "P" -> "p" [] c = "Z" -> "z" [] OTHER -> c

(* The SPARQL functions LCASE and CONTAINS on the characters of a string *)
LCASE(chars) == [i \in 1..Len(chars) |-> LowerCase(chars[i])]

CONTAINS(chars, part) ==
    \E i \in 0..(Len(chars) - Len(part)) : SubSeq(chars, i + 1, i + Len(part)) = part

(* filter_clause: FILTER(?title = "title") when exact, otherwise
   FILTER(CONTAINS(LCASE(?title), LCASE("title"))) *)
filter_clause(label, title, exact) ==
    IF exact THEN label = Literal(title)
    ELSE CONTAINS(LCASE(Chars(label[2])), LCASE(Chars(title)))

(* SPARQLService.find_terms_by_title: the solutions of
     ?term a cs:Term ; rdfs:label ?title ; rdfs:comment ?definition ;
           cs:is_a ?domain .  ?domain cs:is_a ?layer .  filter_clause
   All five variables are selected, so no solution comes twice *)
find_terms_by_title(g, title, exact) ==
    UNION {UNION {UNION {UNION {{[term |-> term, title |-> label, definition |-> definition,
                                  domain |-> domain, layer |-> layer] :
                                     layer \in objects(g, domain, CS("is_a"))} :
                                domain \in objects(g, term, CS("is_a"))} :
                         definition \in objects(g, term, RDFS_comment)} :
                  label \in {l \in objects(g, term, RDFS_label) : filter_clause(l, title, exact)}} :
           term \in {t[1] : t \in {u \in g : u[2] = RDF_type /\ u[3] = CS("Term")}}}

(* The keys and titles asked about *)
AllKeys ==
    ({"layer"} \X LayerIds) \cup ({"domain"} \X DomainIds) \cup ({"term"} \X TermIds)

(* The counts of the two graphs gs and their answers to the queries *)
Answers(gs) ==
    [nodes |-> number_of_nodes(gs.net),
     edges |-> number_of_edges(gs.net),
     triples |-> Cardinality(gs.rdf),
     node_info |-> [k \in AllKeys |-> get_node_info(gs.net, k[2], k[1])],
     neighbors |-> [k \in AllKeys |->
                       [dir \in {"in", "out", "both"} |-> get_neighbors(gs.net, k[2], k[1], 2, dir)]],
     shortest_path |-> [p \in AllKeys \X AllKeys |->
                           find_shortest_path(gs.net, p[1][2], p[2][2], p[1][1], p[2][1])],
     hierarchy |-> [t \in TermIds |-> get_term_hierarchy(gs.net, t)],
     find_by_label |-> [t \in TermIds |-> find_terms_by_title(gs.rdf, TermTitle(t), TRUE)]]

(* C10: when refresh() is called twice in a row and the store does not change
   from the start of the first call to the end of the second, the graphs
   after the second call have the same node, edge and triple counts and give
   the same answer to every query as after the first. *)
IdempotentRefresh ==
    (pc = "idle" /\ rerun /\ Len(hist) = 1) => Answers(Graphs) = Answers(old)

(* A second refresh in a row has completed over a store that was written
   before the first, and the queries find its terms *)
IdempotentWitness ==
    /\ pc = "idle" /\ rerun /\ Len(hist) = 1
    /\ writes > 0
    /\ \E t \in terms :
          /\ get_node_info(netGraph, t.id, "term").found
          /\ find_terms_by_title(rdfGraph, t.title, TRUE) # {}

-----------------------------------------------------------------------------
(* A rebuild in which the construction of one term's triples fails *)

(* _add_terms, loop body up to the lookup of the term's layer *)
add_term_until_lookup(g, term) ==
    LET term_uri == ENTITY("term", term.id)
    IN  add(add(add(g, <<term_uri, RDF_type, CS("Term")>>),
                <<term_uri, RDFS_label, Literal(term.title)>>),
            <<term_uri, RDFS_comment, Literal(term.definition)>>)

(* The lookup of some term's layer raises (the store is locked, say).  The
   terms before it, in rowid order, are in the graph; no statement of
   _add_terms, _build_graph, SPARQLService.refresh or GraphService.refresh
   handles the exception, so the refresh ends there *)
SparqlAddTermsRaises ==
    /\ pc = "add_terms"
    /\ \E term \in terms :
          rdfGraph' = add_term_until_lookup(
                          add_terms(rdfGraph, {t \in terms : t.id < term.id}, layers), term)
    /\ pc' = "raised"
    /\ obs' = "none"
    /\ UNCHANGED <<store_vars, netGraph, old, hist, rerun, event_vars>>

NextFailure == Next \/ SparqlAddTermsRaises

SpecFailure == Init /\ [][NextFailure]_vars

(* The type, label and hierarchy triples of entity e of snapshot s are in g *)
EntityTriplesPresent(g, s, e) ==
    /\ Statements(g, ENTITY(e[1], e[2]), RDF_type) # {}
    /\ Statements(g, ENTITY(e[1], e[2]), RDFS_label) # {}
    /\ \A d \in s.domains :
          e = <<"domain", d.id>> =>
              Links(g, ENTITY("domain", d.id), ENTITY("layer", d.layer_id)) # {}
    /\ \A t \in s.terms :
          e = <<"term", t.id>> =>
              Links(g, ENTITY("term", t.id), ENTITY("domain", t.domain_id)) # {}

(* C11: when the triples of one entity cannot be constructed during a
   rebuild, the rebuild goes on: the type, label and hierarchy triples of
   every other entity and every relationship triple are in the triple set it
   leaves. *)
FailureIsIsolated ==
    pc = "raised" =>
        \E i \in 1..Len(hist) :
            /\ \E bad \in Entities(hist[i]) :
                  \A e \in Entities(hist[i]) \ {bad} : EntityTriplesPresent(rdfGraph, hist[i], e)
            /\ \A j \in 1..Len(hist[i].rels) : RelationshipTriple(hist[i].rels[j]) \in rdfGraph

-----------------------------------------------------------------------------
(* The path queries on a built property graph *)

(* The nodes that directed paths of at most k edges from n lead to *)
RECURSIVE ReachWithin(_, _, _)
ReachWithin(g, n, k) ==
    IF k = 0 THEN {n}
    ELSE LET near == ReachWithin(g, n, k - 1)
         IN  near \cup {e[2] : e \in {f \in DOMAIN g.edges : f[1] \in near}}

Reachable(g, n, m) == m \in ReachWithin(g, n, number_of_nodes(g))

(* C12: shortest_path(source, target) returns none, without raising, when the
   target cannot be reached from the source and when the source key or the
   target key is not a node of the graph. *)
ShortestPathNoneWhenAbsent ==
    Built =>
        \A p \in AllKeys \X AllKeys :
            (\/ NodeKey(p[1][1], p[1][2]) \notin DOMAIN netGraph.nodes
             \/ NodeKey(p[2][1], p[2][2]) \notin DOMAIN netGraph.nodes
             \/ ~Reachable(netGraph, NodeKey(p[1][1], p[1][2]), NodeKey(p[2][1], p[2][2])))
                => find_shortest_path(netGraph, p[1][2], p[2][2], p[1][1], p[2][1]).result = "None"

(* The queries of NetworkService read the nodes and the edges of the graph,
   not the attributes of its edges, and the order of the rows of
   term_relationships shows only in the attributes of an edge that two rows
   share: for the queries the stores are taken with their relationship rows
   inserted in the order of (source, target, predicate) *)
RowRank(rel) ==
    (rel.source_term_id * (MaxTerms + 1) + rel.target_term_id) * 2
        + (IF rel.predicate = "is_a" THEN 0 ELSE 1)

InKeyOrder(rows) ==
    \A i \in 1..Len(rows) : \A j \in (i + 1)..Len(rows) : RowRank(rows[i]) < RowRank(rows[j])

InitQuery == InitBuild /\ InKeyOrder(rels)

SpecQuery == InitQuery /\ [][NextBuild]_vars

(* The direction argument of get_neighbors: the spec's incoming, outgoing and
   both are the code's "in", "out" and "both" *)
Directions == {"in", "out", "both"}

(* The nodes one edge away from n in the direction, read off the edges *)
Adjacent(g, n, direction) ==
    {m \in DOMAIN g.nodes :
        \/ direction \in {"out", "both"} /\ <<n, m>> \in DOMAIN g.edges
        \/ direction \in {"in", "both"} /\ <<m, n>> \in DOMAIN g.edges}

(* The nodes at most 0, 1, ..., k hops from n in the direction, a sequence
   of k + 1 sets, by closing {n} under Adjacent k times *)
RECURSIVE HopSets(_, _, _, _)
HopSets(g, n, k, direction) ==
    IF k = 0 THEN <<{n}>>
    ELSE LET before == HopSets(g, n, k - 1, direction)
         IN  Append(before, before[k] \cup UNION {Adjacent(g, m, direction) : m \in before[k]})

(* The nodes whose hop distance is exactly d, given the hop sets *)
AtHops(within, d) == within[d + 1] \ within[d]

(* The hop distance of a node other than the start that the hop sets reach *)
HopDistance(within, m) == CHOOSE d \in 1..(Len(within) - 1) : m \in AtHops(within, d)

(* Breadth-first search from the paths found so far, all of one length: the
   shortest paths to target *)
RECURSIVE shortest_paths_from(_, _, _, _)
shortest_paths_from(g, paths, visited, target) ==
    LET hits == {p \in paths : p[Len(p)] = target}
        next == UNION {{Append(p, v) : v \in successors(g, p[Len(p)]) \ visited} : p \in paths}
    IN  IF hits # {} THEN hits
        ELSE IF next = {} THEN {}
        ELSE shortest_paths_from(g, next, visited \cup {p[Len(p)] : p \in next}, target)

(* nx.shortest_path(G, source, target) on an unweighted graph returns one of
   the shortest directed paths; which one depends on the adjacency order,
   which the model does not carry: these are the paths it can return *)
shortest_paths(g, source_node, target_node) ==
    shortest_paths_from(g, {<<source_node>>}, {source_node}, target_node)

(* C13: when the target can be reached, the path returned starts at the
   source, ends at the target, follows one directed edge per step and has the
   least number of edges of all directed paths; between two nodes with no
   directed path, as from the end of a chain back to its start, the answer is
   none. *)
ShortestPathCorrect ==
    Built =>
        \A from \in AllKeys :
            LET source == NodeKey(from[1], from[2])
                within == HopSets(netGraph, source, number_of_nodes(netGraph), "out")
            IN  \A to \in AllKeys :
                    LET target == NodeKey(to[1], to[2])
                        answer == find_shortest_path(netGraph, from[2], to[2], from[1], to[1])
                        paths == shortest_paths(netGraph, source, target)
                    IN  {source, target} \subseteq DOMAIN netGraph.nodes =>
                            IF target \in within[Len(within)]
                            THEN /\ answer.result = "path"
                                 /\ paths # {}
                                 /\ \A p \in paths :
                                       /\ p[1] = source /\ p[Len(p)] = target
                                       /\ \A i \in 1..(Len(p) - 1) :
                                              <<p[i], p[i + 1]>> \in DOMAIN netGraph.edges
                                       /\ answer.edges = Len(p) - 1
                                       /\ Len(p) > 1 => target \notin within[Len(p) - 1]
                            ELSE answer.result = "None" /\ paths = {}

(* A chain term 2 -> term 1 -> domain 1 -> layer 1 of a relationship edge and
   two hierarchy edges is the one shortest path between its ends, and there is
   no path back *)
ShortestPathWitness ==
    /\ Built
    /\ shortest_paths(netGraph, NodeKey("term", 2), NodeKey("layer", 1))
           = {<<NodeKey("term", 2), NodeKey("term", 1), NodeKey("domain", 1), NodeKey("layer", 1)>>}
    /\ find_shortest_path(netGraph, 2, 1, "term", "layer") = [result |-> "path", edges |-> 3]
    /\ find_shortest_path(netGraph, 1, 2, "layer", "term") = [result |-> "None"]

(* get_neighbors answers a dict depth_d -> list: the level of depth d, or the
   empty set when the key depth_d is missing *)
Level(answer, d) == UNION {p[2] : p \in {q \in answer : q[1] = d}}

(* C14: with depth 1 the answer for a node B holds one level, depth_1, of the
   nodes C with an edge B -> C for the outgoing direction, of the nodes A with
   an edge A -> B for the incoming direction, and of both for the direction
   both. *)
NeighborsFollowDirection ==
    Built =>
        \A k \in AllKeys : \A direction \in Directions :
            NodeKey(k[1], k[2]) \in DOMAIN netGraph.nodes =>
                LET B == NodeKey(k[1], k[2])
                    answer == get_neighbors(netGraph, k[2], k[1], 1, direction)
                    expected == Adjacent(netGraph, B, direction) \ {B}
                IN  answer = IF expected = {} THEN {} ELSE {<<1, expected>>}

(* Term 1 -> domain 1 -> layer 1, and nothing else at domain 1 *)
NeighborsWitness ==
    /\ Built
    /\ get_neighbors(netGraph, 1, "domain", 1, "out") = {<<1, {NodeKey("layer", 1)}>>}
    /\ get_neighbors(netGraph, 1, "domain", 1, "in") = {<<1, {NodeKey("term", 1)}>>}
    /\ get_neighbors(netGraph, 1, "domain", 1, "both")
           = {<<1, {NodeKey("term", 1), NodeKey("layer", 1)}>>}

MaxDepth == 3

(* C15: for a node of the graph, a depth of at least 1 and a direction, the
   levels of the answer are pairwise disjoint and do not hold the start node,
   level d holds exactly the nodes at hop distance d in the direction, no
   reported level is empty, and the reported levels are 1..k for a k that is
   at most the depth. *)
NeighborLevelsAreHopDistances ==
    Built =>
        \A k \in AllKeys : \A direction \in Directions :
            NodeKey(k[1], k[2]) \in DOMAIN netGraph.nodes =>
                LET start == NodeKey(k[1], k[2])
                    within == HopSets(netGraph, start, MaxDepth, direction)
                IN  \A depth \in 1..MaxDepth :
                        LET answer == get_neighbors(netGraph, k[2], k[1], depth, direction)
                            reported == {p[1] : p \in answer}
                        IN  /\ \A p \in answer : \A q \in answer :
                                  /\ p[1] = q[1] => p = q
                                  /\ p # q => p[2] \cap q[2] = {}
                            /\ \A p \in answer : start \notin p[2] /\ p[2] # {}
                            /\ \A d \in 1..depth : Level(answer, d) = AtHops(within, d)
                            /\ reported = 1..Cardinality(reported)
                            /\ Cardinality(reported) <= depth

(* From term 2, child of term 1: depth 3 reports the parent and the domain,
   then the layer, and stops; with both directions a node seen at depth 1 is
   not reported again at depth 2 *)
NeighborLevelsWitness ==
    /\ Built
    /\ \E t \in terms : t.id = 2 /\ t.parent_term_id = 1 /\ t.domain_id = 1
    /\ get_neighbors(netGraph, 2, "term", MaxDepth, "out")
           = {<<1, {NodeKey("term", 1), NodeKey("domain", 1)}>>, <<2, {NodeKey("layer", 1)}>>}
    /\ Level(get_neighbors(netGraph, 1, "term", 2, "both"), 2) = {NodeKey("layer", 1)}

(* C16: a term with a parent term and an owning domain has, in the answer of
   get_term_hierarchy, its parent among the ancestors at distance 1 and its
   domain among the ancestors at distance 1. *)
ParentAndDomainAreAncestors ==
    Built =>
        \A T \in WithParent(Snapshot) :
            LET P == NodeKey("term", T.parent_term_id)
                D == NodeKey("domain", T.domain_id)
                ancestors == get_term_hierarchy(netGraph, T.id).ancestors
            IN  {P, D} \subseteq DOMAIN netGraph.nodes =>
                    {hierarchy_entry(netGraph, P, 1), hierarchy_entry(netGraph, D, 1)}
                        \subseteq ancestors

(* self.graph.nodes() iterates in insertion order: _build_graph adds the layer
   nodes, the domain nodes and the term nodes, then the nodes that only an
   edge names; within a kind the model takes the rows by id *)
KindRank(node) ==
    IF node[1] = "layer" THEN 0 ELSE IF node[1] = "domain" THEN 1 ELSE 2

Before(m, n) ==
    \/ KindRank(m) < KindRank(n)
    \/ KindRank(m) = KindRank(n) /\ m[2] <= n[2]

RECURSIVE nodes_in_order(_)
nodes_in_order(ns) ==
    IF ns = {} THEN <<>>
    ELSE LET first == CHOOSE m \in ns : \A n \in ns : Before(m, n)
         IN  <<first>> \o nodes_in_order(ns \ {first})

(* A variant of sort_by_distance that leaves the list as it was appended *)
keep_order(entries, d) == entries

(* list.sort(key=lambda x: x["distance"]): a stable sort, the entries of
   distance d, d + 1, ... in the order they had *)
RECURSIVE sort_by_distance(_, _)
sort_by_distance(entries, d) ==
    IF entries = <<>> THEN <<>>
    ELSE SelectSeq(entries, LAMBDA x : x.distance = d)
             \o sort_by_distance(SelectSeq(entries, LAMBDA x : x.distance # d), d + 1)

(* The for loop of get_term_hierarchy over the nodes in order: the entries
   appended to one of the two lists *)
RECURSIVE append_entries(_, _, _, _)
append_entries(g, order, term_node, to_term) ==
    IF order = <<>> THEN <<>>
    ELSE LET node == Head(order)
             distance == IF to_term THEN path_length(g, {node}, {node}, term_node, 0)
                         ELSE path_length(g, {term_node}, {term_node}, node, 0)
         IN  (IF distance > 0 THEN <<hierarchy_entry(g, node, distance)>> ELSE <<>>)
                 \o append_entries(g, Tail(order), term_node, to_term)

(* NetworkService.get_term_hierarchy with its two lists in order *)
get_term_hierarchy_lists(g, term_id) ==
    LET term_node == NodeKey("term", term_id)
        order == nodes_in_order(DOMAIN g.nodes)
    IN  IF term_node \notin DOMAIN g.nodes THEN [ancestors |-> <<>>, descendants |-> <<>>]
        ELSE [ancestors |-> sort_by_distance(append_entries(g, order, term_node, TRUE), 1),
              descendants |-> sort_by_distance(append_entries(g, order, term_node, FALSE), 1)]

NonDecreasing(entries) ==
    \A i \in 1..Len(entries) : \A j \in i..Len(entries) :
        entries[i].distance <= entries[j].distance

(* C17: the term is in neither list; the ancestors are the nodes with a
   directed path to the term and the descendants the nodes with a directed
   path from it, each listed once with the length of a shortest such path as
   its distance; both lists are in non-decreasing order of distance. *)
HierarchyListsCorrect ==
    Built =>
        \A t \in TermIds :
            NodeKey("term", t) \in DOMAIN netGraph.nodes =>
                LET term == NodeKey("term", t)
                    answer == get_term_hierarchy_lists(netGraph, t)
                    to_term == HopSets(netGraph, term, number_of_nodes(netGraph), "in")
                    from_term == HopSets(netGraph, term, number_of_nodes(netGraph), "out")
                    above == to_term[Len(to_term)] \ {term}
                    below == from_term[Len(from_term)] \ {term}
                IN  /\ \A x \in Range(answer.ancestors) \cup Range(answer.descendants) :
                          ~(x.id = t /\ x.type = "term")
                    /\ Range(answer.ancestors)
                           = {hierarchy_entry(netGraph, n, HopDistance(to_term, n)) : n \in above}
                    /\ Range(answer.descendants)
                           = {hierarchy_entry(netGraph, n, HopDistance(from_term, n)) : n \in below}
                    /\ Len(answer.ancestors) = Cardinality(above)
                    /\ Len(answer.descendants) = Cardinality(below)
                    /\ NonDecreasing(answer.ancestors)
                    /\ NonDecreasing(answer.descendants)

(* Term 1 with the child term 2: one node has a path to it, and of the nodes
   it has a path to, the layer, appended first, is listed after the domain *)
HierarchyListsWitness ==
    /\ Built
    /\ \E T \in terms : T.id = 2 /\ T.parent_term_id = 1
    /\ LET answer == get_term_hierarchy_lists(netGraph, 1)
       IN  /\ Len(answer.ancestors) = 1 /\ answer.ancestors[1].id = 2
           /\ Len(answer.descendants) = 2
           /\ answer.descendants[1].type = "domain" /\ answer.descendants[1].distance = 1
           /\ answer.descendants[2].type = "layer" /\ answer.descendants[2].distance = 2

(* A variant of find_terms_in_domain_tree that takes only the terms with an
   edge to the domain node *)
find_terms_with_edge_to_domain(g, domain_id) ==
    LET domain_node == NodeKey("domain", domain_id)
        found == SelectSeq(nodes_in_order(DOMAIN g.nodes),
                           LAMBDA node : node[1] = "term" /\ <<node, domain_node>> \in DOMAIN g.edges)
    IN  IF domain_node \notin DOMAIN g.nodes THEN <<>>
        ELSE [i \in 1..Len(found) |-> found[i][2]]

(* NetworkService.find_terms_in_domain_tree: the ids of the term nodes from
   which nx.shortest_path finds a path to the domain node *)
find_terms_in_domain_tree(g, domain_id) ==
    LET domain_node == NodeKey("domain", domain_id)
        found == SelectSeq(nodes_in_order(DOMAIN g.nodes),
                           LAMBDA node : /\ node[1] = "term"
                                         /\ path_length(g, {node}, {node}, domain_node, 0) >= 0)
    IN  IF domain_node \notin DOMAIN g.nodes THEN <<>>
        ELSE [i \in 1..Len(found) |-> found[i][2]]

(* C18: for a domain of the graph the answer lists, each once, the ids of
   exactly the term nodes with a directed path to the domain node; the terms
   whose domain_id is the domain are among them. *)
DomainTreeMembers ==
    Built =>
        \A d \in DomainIds :
            NodeKey("domain", d) \in DOMAIN netGraph.nodes =>
                LET answer == find_terms_in_domain_tree(netGraph, d)
                IN  /\ Range(answer)
                           = {n[2] : n \in {m \in DOMAIN netGraph.nodes :
                                               /\ m[1] = "term"
                                               /\ Reachable(netGraph, m, NodeKey("domain", d))}}
                    /\ Len(answer) = Cardinality(Range(answer))
                    /\ \A t \in Snapshot.terms : t.domain_id = d => t.id \in Range(answer)

(* Term 2 of domain 2 reaches domain 1 through term 1 and no term reaches
   domain 2 but term 2 *)
DomainTreeWitness ==
    /\ Built
    /\ \E t \in terms : t.id = 2 /\ t.domain_id = 2
    /\ find_terms_in_domain_tree(netGraph, 1) = <<1, 2>>
    /\ find_terms_in_domain_tree(netGraph, 2) = <<2>>

(* The keys looked up: those of the rows the store can hold and, of each
   kind, one more that no row has *)
LookupKeys == {"layer", "domain", "term"} \X (1..(MaxTerms + 1))

(* C19: a lookup of a key that is not a node of the graph answers with the
   empty mapping (get_neighbors), with None (get_node_info), with two empty
   lists (get_term_hierarchy) and with the empty list
   (find_terms_in_domain_tree); none of them answers with an exception. *)
AbsentKeyIsSoftNotFound ==
    Built =>
        \A k \in LookupKeys :
            NodeKey(k[1], k[2]) \notin DOMAIN netGraph.nodes =>
                /\ \A depth \in 1..MaxDepth : \A direction \in Directions :
                       get_neighbors(netGraph, k[2], k[1], depth, direction) = {}
                /\ get_node_info(netGraph, k[2], k[1]) = [found |-> FALSE]
                /\ k[1] = "term" =>
                       get_term_hierarchy_lists(netGraph, k[2])
                           = [ancestors |-> <<>>, descendants |-> <<>>]
                /\ k[1] = "domain" => find_terms_in_domain_tree(netGraph, k[2]) = <<>>

(* A graph with the term 1 and without the term 2, asked for term 2 and for a
   domain that no row has *)
AbsentKeyWitness ==
    /\ Built
    /\ get_node_info(netGraph, 1, "term").found
    /\ NodeKey("term", 2) \notin DOMAIN netGraph.nodes
    /\ NodeKey("domain", MaxTerms + 1) \notin DOMAIN netGraph.nodes
    /\ get_node_info(netGraph, 2, "term") = [found |-> FALSE]
    /\ get_neighbors(netGraph, 2, "term", 1, "both") = {}
    /\ get_term_hierarchy_lists(netGraph, 2).descendants = <<>>
    /\ find_terms_in_domain_tree(netGraph, MaxTerms + 1) = <<>>

(* The rows of term_relationships over the terms ts: create_relationship asks
   that both terms exist and that the row is new, not that they differ *)
AnyRelRows(ts) ==
    UNION {{TermRelationship(s.id, t.id, p) : t \in ts, p \in RelPredicates} : s \in ts}

(* GraphService.__init__ over a store of one layer and one domain *)
InitOneDomain ==
    /\ EventProcessor_init
    /\ \E pp \in LayerPredicates : layers = {Layer(1, pp)}
    /\ domains = {Domain(1, 1)}
    /\ terms \in {ts \in UNION {TermSets(k, FALSE) : k \in 0..MaxTerms} :
                     \A t \in ts : t.domain_id = 1}
    /\ rels \in RowSeqs(AnyRelRows(terms), MaxRels)
    /\ nextTermId = Cardinality(terms) + 1
    /\ writes = 0
    /\ rdfGraph = EmptyGraph
    /\ netGraph = EmptyDiGraph
    /\ pc = "new"
    /\ old = [rdf |-> EmptyGraph, net |-> EmptyDiGraph]
    /\ hist = <<Store>>
    /\ obs = "none"
    /\ rerun = FALSE

SpecOneDomain == InitOneDomain /\ [][NextBuild]_vars

(* DiGraph.degree: in-degree plus out-degree, so that an edge from a node to
   itself counts twice *)
degree(g, n) == Cardinality(predecessors(g, n)) + Cardinality(successors(g, n))

(* calculate_centrality("degree") = nx.degree_centrality(self.graph):
       if len(G) <= 1: return {n: 1 for n in G}
       s = 1.0 / (len(G) - 1.0)
       return {n: d * s for n, d in G.degree()}
   the value of a node as the fraction num / den *)
degree_centrality(g) ==
    [n \in DOMAIN g.nodes |->
        IF number_of_nodes(g) <= 1 THEN [num |-> 1, den |-> 1]
        ELSE [num |-> degree(g, n), den |-> number_of_nodes(g) - 1]]

(* C20: in a built graph that is not empty the degree centrality of every
   node is (in-degree + out-degree) / (number of nodes - 1) and lies between
   0 and 1. *)
DegreeCentralityInUnitInterval ==
    (Built /\ number_of_nodes(netGraph) > 1) =>
        \A n \in DOMAIN netGraph.nodes :
            LET value == degree_centrality(netGraph)[n]
            IN  /\ value.num * (number_of_nodes(netGraph) - 1) = degree(netGraph, n) * value.den
                /\ 0 <= value.num
                /\ value.num <= value.den

(* SPARQLService.get_domain_hierarchy: the solutions of
     ?domain a cs:Domain ; rdfs:label ?domainTitle ; cs:is_a ?layer .
     ?layer a cs:Layer ; rdfs:label ?layerTitle .
     FILTER(?layer = <layer_uri>)      -- only with a layer_id
   All four variables are selected, so no solution comes twice; the order of
   ORDER BY ?layerTitle ?domainTitle is not carried *)
get_domain_hierarchy(g, layer_id) ==
    UNION {UNION {UNION {{[domain |-> domain, domainTitle |-> domainTitle,
                           layer |-> layer, layerTitle |-> layerTitle] :
                              layerTitle \in objects(g, layer, RDFS_label)} :
                         layer \in {l \in objects(g, domain, CS("is_a")) :
                                       /\ <<l, RDF_type, CS("Layer")>> \in g
                                       /\ layer_id # NoId => l = ENTITY("layer", layer_id)}} :
                  domainTitle \in objects(g, domain, RDFS_label)} :
           domain \in {t[1] : t \in {u \in g : u[2] = RDF_type /\ u[3] = CS("Domain")}}}

(* The row of the domain-layer join for a domain and its owning layer *)
HierarchyRow(domain, layer) ==
    [domain |-> ENTITY("domain", domain.id), domainTitle |-> Literal(domain.title),
     layer |-> ENTITY("layer", layer.id), layerTitle |-> Literal(layer.title)]

JoinRows(s, ds) ==
    UNION {{HierarchyRow(d, l) : l \in {m \in s.layers : m.id = d.layer_id}} : d \in ds}

(* C21: without a layer_id the answer is one row for every domain of the
   snapshot with its owning layer, with a layer_id the rows of the domains of
   that layer, whatever the primary_predicate of the layers. *)
DomainHierarchyIsJoin ==
    Built =>
        /\ get_domain_hierarchy(rdfGraph, NoId) = JoinRows(Snapshot, Snapshot.domains)
        /\ \A l \in LayerIds :
               get_domain_hierarchy(rdfGraph, l)
                   = JoinRows(Snapshot, {d \in Snapshot.domains : d.layer_id = l})

(* The texts searched for: a title, the title in another case, a part of it
   in another case, a part of every title, and a text in no title *)
SearchTexts == {"Alpha", "alpha", "LPH", "a", "Zeta"}

(* The label matches: equality when exact, otherwise containment whatever
   the case *)
Matches(label, text, exact) ==
    IF exact THEN Chars(label) = Chars(text)
    ELSE \E i \in 0..(Len(Chars(label)) - Len(Chars(text))) :
             \A j \in 1..Len(Chars(text)) :
                 LowerCase(Chars(label)[i + j]) = LowerCase(Chars(text)[j])

(* C22: the answer of find_terms_by_title holds one descriptor for every term
   of the snapshot whose label matches the text and none for another term,
   for terms with and without a parent and whatever the primary_predicate of
   their layer. *)
OneDescriptorPerMatchingTerm ==
    Built =>
        \A text \in SearchTexts : \A exact \in BOOLEAN :
            LET answer == find_terms_by_title(rdfGraph, text, exact)
            IN  /\ \A r \in answer : \E t \in Snapshot.terms : r.term = ENTITY("term", t.id)
                /\ \A t \in Snapshot.terms :
                       Cardinality({r \in answer : r.term = ENTITY("term", t.id)})
                           = IF Matches(t.title, text, exact) THEN 1 ELSE 0

(* The prefixes query() hands to rdflib as initNs *)
initNs == {"cs", "entity", "rdf", "rdfs", "skos", "dcterms", "foaf"}

(* The query texts tried, with what rdflib's parser makes of each: whether
   the text is in the grammar, and the prefixes it uses without declaring
   them *)
SparqlQueries ==
    {[text |-> "SELECT ?term WHERE { ?term a cs:Term }", in_grammar |-> TRUE, prefixes |-> {"cs"}],
     [text |-> "SELEKT ?term WHERE { ?term a cs:Term }", in_grammar |-> FALSE, prefixes |-> {"cs"}],
     [text |-> "SELECT ?term WHERE { ?term a foo:Term }", in_grammar |-> TRUE, prefixes |-> {"foo"}]}

(* Graph.query of rdflib: pyparsing's ParseException holds the text parsed
   (pstr); translating a prefixed name of an unbound prefix raises
   Exception("Unknown namespace prefix : <prefix>"); the queries of the
   model that evaluate select the terms *)
Graph_query(g, q, ns) ==
    IF ~q.in_grammar
    THEN [raised |-> TRUE, exception |-> "ParseException", carries |-> {q.text}]
    ELSE IF ~(q.prefixes \subseteq ns)
    THEN [raised |-> TRUE, exception |-> "Exception",
          carries |-> {<<"Unknown namespace prefix : ", pre>> : pre \in q.prefixes \ ns}]
    ELSE [raised |-> FALSE,
          rows |-> {[term |-> t[1]] : t \in {u \in g : u[2] = RDF_type /\ u[3] = CS("Term")}}]

(* SPARQLService.query: the rows as dictionaries, or, from the except branch
   that logs and re-raises, the exception of rdflib as it is *)
query(g, sparql_query) ==
    LET results == Graph_query(g, sparql_query, initNs)
    IN  IF results.raised THEN results
        ELSE [raised |-> FALSE, result_list |-> results.rows]

(* C23: a query text that is not in the grammar, or that uses a namespace
   that is not defined, fails with an error that carries the text of the
   query and reaches the caller: no result is returned in its place. *)
QueryErrorCarriesPattern ==
    Built =>
        \A q \in SparqlQueries :
            (~q.in_grammar \/ ~(q.prefixes \subseteq initNs)) =>
                /\ query(rdfGraph, q).raised
                /\ q.text \in query(rdfGraph, q).carries

(* An exception with the values its message names, and the return of a call
   of a library function: the function and its arguments *)
Raise(exception, names) == [raised |-> TRUE, exception |-> exception, names |-> names]
Return(call) == [raised |-> FALSE, returns |-> call]

(* A variant of calculate_centrality that falls back to its default method *)
calculate_centrality_or_default(g, method) ==
    IF method \in {"betweenness", "closeness", "degree"}
    THEN Return(<<method, g>>)
    ELSE Return(<<"nx.pagerank", g>>)

(* NetworkService.calculate_centrality, by the networkx function it calls *)
calculate_centrality(g, method) ==
    IF method = "pagerank" THEN Return(<<"nx.pagerank", g>>)
    ELSE IF method = "betweenness" THEN Return(<<"nx.betweenness_centrality", g>>)
    ELSE IF method = "closeness" THEN Return(<<"nx.closeness_centrality", g>>)
    ELSE IF method = "degree" THEN Return(<<"nx.degree_centrality", degree_centrality(g)>>)
    ELSE Raise("ValueError", {"Unknown centrality method", method})

(* NetworkService.detect_communities *)
detect_communities(g, method) ==
    IF method = "louvain" THEN Return(<<"nx_comm.louvain_communities", g>>)
    ELSE IF method = "label_propagation"
    THEN Return(<<"nx_comm.label_propagation_communities", g>>)
    ELSE Raise("ValueError", {"Unknown community detection method", method})

(* The serializers rdflib registers under these names *)
SerializerPlugins == {"turtle", "xml", "n3", "nt", "json-ld", "trig"}

(* SPARQLService.serialize = Graph.serialize(format): rdflib looks the format
   up among its plugins and raises PluginException("No plugin registered for
   (<format>, Serializer)") when there is none *)
serialize(g, format) ==
    IF format \in SerializerPlugins THEN Return(<<"serialize", format, g>>)
    ELSE Raise("PluginException", {"No plugin registered for", format})

(* GraphService.export_graph_data *)
export_graph_data(gs, format) ==
    IF format = "json"
    THEN Return(<<"json", serialize(gs.rdf, "json-ld"), gs.net>>)
    ELSE IF format = "turtle" THEN serialize(gs.rdf, "turtle")
    ELSE IF format = "graphml" THEN Return(<<"write_graphml", gs.net>>)
    ELSE Raise("ValueError", {"Unsupported export format", format})

(* The method and format names passed *)
NamesPassed ==
    {"pagerank", "degree", "louvain", "label_propagation", "turtle", "json", "graphml",
     "json-ld", "bogus", "Degree", "JSON", Unset}

(* The call was rejected with an exception that names the value *)
Rejected(answer, name) == answer.raised /\ name \in answer.names

(* C24: a method name that calculate_centrality or detect_communities does
   not support, and a format that serialize or export_graph_data does not
   support, is rejected with an error that names the value passed; nothing
   is computed with another method or format in its place. *)
UnsupportedNameRejected ==
    Built =>
        \A name \in NamesPassed :
            /\ name \notin {"pagerank", "betweenness", "closeness", "degree"}
                   => Rejected(calculate_centrality(netGraph, name), name)
            /\ name \notin {"louvain", "label_propagation"}
                   => Rejected(detect_communities(netGraph, name), name)
            /\ name \notin SerializerPlugins => Rejected(serialize(rdfGraph, name), name)
            /\ name \notin {"json", "turtle", "graphml"}
                   => Rejected(export_graph_data(Graphs, name), name)

(* On a graph with a term, bogus is rejected by all four and the names that
   are supported are not *)
UnsupportedNameWitness ==
    /\ Built
    /\ terms # {}
    /\ Rejected(calculate_centrality(netGraph, "bogus"), "bogus")
    /\ Rejected(detect_communities(netGraph, "bogus"), "bogus")
    /\ Rejected(serialize(rdfGraph, "bogus"), "bogus")
    /\ Rejected(export_graph_data(Graphs, "bogus"), "bogus")
    /\ ~calculate_centrality(netGraph, "degree").raised
    /\ ~detect_communities(netGraph, "louvain").raised
    /\ ~serialize(rdfGraph, "turtle").raised
    /\ ~export_graph_data(Graphs, "json").raised

-----------------------------------------------------------------------------
(* The term endpoints of api/terms.py, one request after the other *)

MaxVersion == 2

(* PUT /terms/{id} with a parent_term_id, the response in obs: the term must
   exist (404 otherwise, no step of the model); the parent must exist in the
   domain of the term; the parent chain must not lead back to the term; then
   the parent is set and the version counted up *)
update_term(id, parent_term_id) ==
    \E db_term \in terms :
        /\ db_term.id = id
        /\ IF ~ \E parent \in terms : parent.id = parent_term_id /\ parent.domain_id = db_term.domain_id
           THEN obs' = "400 Parent term must exist and belong to same domain." /\ terms' = terms
           ELSE IF check_circular_reference(terms, id, parent_term_id, Cardinality(terms) + 1)
           THEN obs' = "400 Circular reference detected." /\ terms' = terms
           ELSE /\ db_term.version < MaxVersion
                /\ obs' = "200"
                /\ terms' = (terms \ {db_term})
                                \cup {[db_term EXCEPT !.parent_term_id = parent_term_id,
                                                      !.version = db_term.version + 1]}
        /\ UNCHANGED <<layers, domains, rels, nextTermId>>

(* The graphs are not refreshed by the endpoints *)
Unrefreshed == UNCHANGED <<writes, rdfGraph, netGraph, pc, old, hist, rerun, event_vars>>

PostTerm ==
    /\ \E d \in DomainIds, l \in LayerIds, p \in {NoId} \cup TermIds : create_term(d, l, p)
    /\ obs' = "201"
    /\ Unrefreshed

PutTerm ==
    /\ \E id \in TermIds, p \in TermIds : update_term(id, p)
    /\ Unrefreshed

DeleteTermRequest ==
    /\ \E id \in TermIds : delete_term(id)
    /\ obs' = "200"
    /\ Unrefreshed

InitTerms == Init /\ terms = {}

NextTerms == PostTerm \/ PutTerm \/ DeleteTermRequest

SpecTerms == InitTerms /\ [][NextTerms]_vars

(* The terms above a term: its parent, the parent of its parent, ... *)
RECURSIVE AncestorsWithin(_, _, _)
AncestorsWithin(ts, ids, k) ==
    IF k = 0 THEN {}
    ELSE LET parents == {t.parent_term_id : t \in {u \in ts : u.id \in ids}} \ {NoId}
         IN  parents \cup AncestorsWithin(ts, parents, k - 1)

Ancestors(ts, id) == AncestorsWithin(ts, {id}, Cardinality(ts))

(* Setting the parent of id to parent_term_id would close a cycle *)
ClosesCycle(ts, id, parent_term_id) ==
    parent_term_id = id \/ id \in Ancestors(ts, parent_term_id)

(* C25: after any sequence of create, update and delete requests no term is
   its own parent or its own ancestor, and an update that would close a
   cycle is answered 400 'Circular reference detected.' and changes no
   term. *)
ParentsAcyclic ==
    /\ [](\A t \in terms : t.id \notin Ancestors(terms, t.id))
    /\ [][\A id \in TermIds, p \in TermIds :
              (update_term(id, p) /\ ClosesCycle(terms, id, p))
                  => (obs' = "400 Circular reference detected." /\ terms' = terms)]_vars

(* Term 1 was asked to take its child, term 2, as parent and was refused *)
ParentsAcyclicWitness ==
    /\ obs = "400 Circular reference detected."
    /\ \E t \in terms : t.id = 2 /\ t.parent_term_id = 1
    /\ \E t \in terms : t.id = 1 /\ t.parent_term_id = NoId


-----------------------------------------------------------------------------
(* utils/event_processor.py: the EventProcessor over the table graph_events.
   The class body defines start, stop, _run, process_events, the
   process_*_event handlers, _cleanup_loop and cleanup_old_events twice; the
   later definition of each name is the method the class has *)

MaxEvents == 2
MaxNow == 5
MaxStarts == 2

(* EventProcessor.max_events, the LIMIT of one poll *)
max_events == 1

EventTypes == {"create", "delete"}
EntityTypes == {"term", "widget"}
EntityIds == {1}

(* Who wrote the row's timestamp: the column default of models.GraphEvent
   (SQLAlchemy stores a DateTime as "YYYY-MM-DD HH:MM:SS.ffffff") or a writer
   passing datetime.isoformat() ("YYYY-MM-DDTHH:MM:SS.ffffff+00:00") *)
TimestampFormats == {"DateTime", "isoformat"}

(* A row of graph_events; entity_id is the id in new_data (old_data for a
   delete), and new_data carries a title_embedding *)
GraphEvent(id, event_type, entity_type, entity_id, timestamp, format, processed) ==
    [id |-> id, event_type |-> event_type, entity_type |-> entity_type,
     entity_id |-> entity_id,
     timestamp |-> timestamp, format |-> format, processed |-> processed]

(* The stored text of a timestamp, as far as comparisons see it: the date,
   the separator (" " sorts before "T") and the time of day *)
TimestampText(timestamp, format) ==
    <<timestamp \div 2, IF format = "isoformat" THEN 1 ELSE 0, timestamp % 2>>

(* SQLite's comparison of two TEXT values *)
TextLess(a, b) ==
    \/ a[1] < b[1]
    \/ a[1] = b[1] /\ a[2] < b[2]
    \/ a[1] = b[1] /\ a[2] = b[2] /\ a[3] < b[3]

(* ORDER BY timestamp, rows of equal timestamp in rowid order *)
OrderedBefore(e, f) ==
    \/ TextLess(TimestampText(e.timestamp, e.format), TimestampText(f.timestamp, f.format))
    \/ /\ TimestampText(e.timestamp, e.format) = TimestampText(f.timestamp, f.format)
       /\ e.id < f.id

(* A variant of the SELECT that passes over the rows no handler exists for *)
SelectHandled(events, limit) ==
    LET unprocessed == {e \in events : ~e.processed /\ e.entity_type = "term"}
    IN  {e \in unprocessed : Cardinality({f \in unprocessed : f.id < e.id}) < limit}

(* SELECT * FROM graph_events WHERE processed=0 ORDER BY timestamp LIMIT ? *)
SelectUnprocessed(events, limit) ==
    LET unprocessed == {e \in events : ~e.processed}
    IN  {e \in unprocessed : Cardinality({f \in unprocessed : OrderedBefore(f, e)}) < limit}

(* getattr(self, f"process_{entity_type}_event", None) *)
Handlers == {"layer", "domain", "term", "term_relationship"}

(* What one event of the batch sends to the logger: the handler's line, or
   the warning *)
LogLine(event) ==
    IF event.entity_type \in Handlers
    THEN <<"info", "Processing event", event.entity_type>>
    ELSE <<"warning", "No handler for entity_type", event.entity_type>>

(* EventProcessor.process_events: every handler only logs *)
process_events ==
    LET events == SelectUnprocessed(graph_events, max_events)
    IN  /\ graph_events' = (graph_events \ events)
                               \cup {[event EXCEPT !.processed = TRUE] : event \in events}
        /\ log' = log \cup {LogLine(event) : event \in events}
        /\ id_map' = id_map

(* cutoff.isoformat() of cutoff = now - 48 hours *)
Cutoff == TimestampText(now - 4, "isoformat")

(* EventProcessor.cleanup_old_events *)
cleanup_old_events ==
    /\ graph_events' = {e \in graph_events :
                            ~(e.processed /\ TextLess(TimestampText(e.timestamp, e.format), Cutoff))}
    /\ UNCHANGED <<log, id_map>>

Thread(target) == [target |-> target, at |-> "loop"]

is_alive(t) == threads[t].at # "exited"

(* EventProcessor.start *)
start ==
    /\ IF thread = None \/ ~is_alive(thread)
       THEN /\ Len(threads) < 2 * MaxStarts
            /\ stop_event' = FALSE
            /\ threads' = threads \o <<Thread("_run"), Thread("_cleanup_loop")>>
            /\ thread' = Len(threads) + 1
            /\ cleanup_thread' = Len(threads) + 2
       ELSE UNCHANGED <<stop_event, threads, thread, cleanup_thread>>
    /\ UNCHANGED <<graph_events, now, log, id_map, obs>>

(* EventProcessor.stop: each join returns when its thread has ended or after
   five seconds *)
stop ==
    /\ stop_event' = TRUE
    /\ UNCHANGED <<graph_events, now, thread, cleanup_thread, threads, log, id_map, obs>>

(* One step of a thread running `while not self._stop_event.is_set(): body;
   time.sleep(...)`: the test and the body, or the return of the sleep *)
Loop(t, body) ==
    \/ /\ threads[t].at = "loop"
       /\ IF stop_event
          THEN /\ threads' = [threads EXCEPT ![t].at = "exited"]
               /\ UNCHANGED <<graph_events, log, id_map>>
          ELSE /\ body
               /\ threads' = [threads EXCEPT ![t].at = "sleep"]
    \/ /\ threads[t].at = "sleep"
       /\ threads' = [threads EXCEPT ![t].at = "loop"]
       /\ UNCHANGED <<graph_events, log, id_map>>

(* EventProcessor._run *)
Run ==
    /\ \E t \in DOMAIN threads : threads[t].target = "_run" /\ Loop(t, process_events)
    /\ UNCHANGED <<now, stop_event, thread, cleanup_thread, obs>>

(* EventProcessor._cleanup_loop *)
CleanupLoop ==
    /\ \E t \in DOMAIN threads :
          threads[t].target = "_cleanup_loop" /\ Loop(t, cleanup_old_events)
    /\ UNCHANGED <<now, stop_event, thread, cleanup_thread, obs>>

(* A writer inserts a row: id is the next rowid, timestamp is now *)
InsertEvent ==
    /\ Cardinality(graph_events) < MaxEvents
    /\ \E event_type \in EventTypes, entity_type \in EntityTypes, entity_id \in EntityIds,
          format \in TimestampFormats :
          LET ids == {e.id : e \in graph_events}
              id == IF ids = {} THEN 1 ELSE 1 + CHOOSE i \in ids : \A j \in ids : j <= i
          IN  /\ id <= MaxEvents
              /\ graph_events' = graph_events
                     \cup {GraphEvent(id, event_type, entity_type, entity_id, now, format, FALSE)}
    /\ UNCHANGED <<now, stop_event, thread, cleanup_thread, threads, log, id_map, obs>>

(* Twelve hours pass *)
Tick ==
    /\ now < MaxNow
    /\ now' = now + 1
    /\ UNCHANGED <<graph_events, stop_event, thread, cleanup_thread, threads, log, id_map, obs>>

Untouched == UNCHANGED <<store_vars, graph_vars, old, hist, rerun>>

Start == start /\ Untouched
Stop == stop /\ Untouched
PollingThread == Run /\ Untouched
CleanupThread == CleanupLoop /\ Untouched
Writer == InsertEvent /\ Untouched
Clock == Tick /\ Untouched

(* A processor and the writers of its table, within one cleanup period *)
InitEvents == Init /\ terms = {} /\ Layer(1, Unset) \in layers

NextEvents == Start \/ Stop \/ PollingThread \/ CleanupThread \/ Writer

SpecEvents == InitEvents /\ [][NextEvents]_vars

(* A processor that is started and never stopped, within one cleanup period;
   the scheduler gives the polling thread its turn *)
NextPolling == Start \/ PollingThread \/ CleanupThread \/ Writer

SpecPolling == InitEvents /\ [][NextPolling]_vars /\ WF_vars(PollingThread)

(* A processor that nobody stops, over days *)
NextCleanup == Start \/ PollingThread \/ CleanupThread \/ Writer \/ Clock

SpecCleanup == InitEvents /\ [][NextCleanup]_vars


-----------------------------------------------------------------------------
(* C26 *)

EventIds == 1..MaxEvents

Unprocessed(id) == \E e \in graph_events : e.id = id /\ ~e.processed

Processed(id) == \E e \in graph_events : e.id = id /\ e.processed

(* start() has started the polling thread and stop() has not been called since *)
Running == thread # None /\ is_alive(thread) /\ ~stop_event

(* C26: while the processor is started and keeps running, every row stored
   with processed=0 is eventually marked processed=1, with or without a
   handler for its entity_type; the poll that takes a row without a handler
   logs the warning "No handler for entity_type" and still marks the row *)
EventuallyProcessed ==
    /\ \A id \in EventIds : (Unprocessed(id) /\ Running) ~> (Processed(id) \/ ~Running)
    /\ [][\A t \in DOMAIN threads :
             (threads[t].target = "_run" /\ threads[t].at = "loop" /\ ~stop_event
                  /\ threads'[t].at = "sleep")
                 => \A e \in graph_events :
                        (~e.processed /\ \A f \in graph_events : ~f.processed => ~OrderedBefore(f, e))
                            => /\ Processed(e.id)'
                               /\ e.entity_type \notin Handlers
                                     => <<"warning", "No handler for entity_type", e.entity_type>> \in log']_vars

(* Two rows were stored, the polling thread took them one poll after the
   other, the one without a handler was reported and marked *)
EventuallyProcessedWitness ==
    /\ Running
    /\ Cardinality(graph_events) = MaxEvents
    /\ \A e \in graph_events : e.processed
    /\ \E e \in graph_events :
          /\ e.entity_type \notin Handlers
          /\ <<"warning", "No handler for entity_type", e.entity_type>> \in log
    /\ \E e \in graph_events : e.entity_type \in Handlers


-----------------------------------------------------------------------------
(* C27 *)

(* The started threads of one target that have not ended *)
Alive(target) == {t \in DOMAIN threads : threads[t].target = target /\ is_alive(t)}

(* C27: whatever start() and stop() calls were made, at most one polling
   thread and at most one cleanup thread are alive *)
AtMostOneThreadEach ==
    /\ Cardinality(Alive("_run")) <= 1
    /\ Cardinality(Alive("_cleanup_loop")) <= 1


-----------------------------------------------------------------------------
(* C28 *)

(* The row is more than 48 hours old *)
OlderThan48Hours(e) == now - e.timestamp > 4

(* The step of the cleanup thread that runs cleanup_old_events *)
CleanupRuns ==
    \E t \in DOMAIN threads :
        /\ threads[t].target = "_cleanup_loop"
        /\ threads[t].at = "loop"
        /\ threads'[t].at = "sleep"

(* C28: cleanup_old_events deletes exactly the rows that are marked processed
   and more than 48 hours old; an unprocessed row and a processed row younger
   than 48 hours stay *)
CleanupDeletesExactlyOld ==
    [][CleanupRuns =>
           graph_events' = {e \in graph_events : ~(e.processed /\ OlderThan48Hours(e))}]_vars


-----------------------------------------------------------------------------
(* C29: every id in the answer of find_terms_in_domain_tree(domain) is the id
   of a term whose domain_id is that domain, also when relationship edges
   link terms of other domains to its terms *)
DomainTreeOnlyOwnTerms ==
    Built =>
        \A d \in DomainIds :
            \A id \in Range(find_terms_in_domain_tree(netGraph, d)) :
                \E t \in Snapshot.terms : t.id = id /\ t.domain_id = d


-----------------------------------------------------------------------------
(* C30 *)

(* The entity types the FaissManager holds an index for *)
IndexedTypes == {"layer", "domain", "term"}

(* C30: when a poll marks a create or update event of a layer, domain or term
   as processed, the entity id is in the index of its type after the poll;
   when it marks a delete event, the entity id is not in the index *)
IndexFollowsEvents ==
    [][\A e \in graph_events :
           (~e.processed /\ Processed(e.id)' /\ e.entity_type \in IndexedTypes)
               => IF e.event_type \in {"create", "update"}
                  THEN <<e.entity_type, e.entity_id>> \in id_map'
                  ELSE <<e.entity_type, e.entity_id>> \notin id_map']_vars

====
